---- MODULE Spec2Model ----
(***************************************************************************)
(* BubblejailInstance and BubblejailInit                                   *)
(* (src/src/bubblejail/bubblejail_instance.py): the lifecycle of           *)
(* `bubblejail run` on one instance (Spec, SigSpec with SIGTERM, FaultSpec *)
(* with failing steps of __aexit__), the construction of the bwrap         *)
(* options (BuildSpec), the metadata file                                  *)
(* (MetaSpec), edit_config_in_editor (EditSpec) and send_run_rpc           *)
(* (RpcSpec).                                                              *)
(*                                                                         *)
(* Each runner is one invocation of BubblejailInstance.async_run_init:     *)
(* `async with init:` awaits BubblejailInit.__aenter__, then runs the body *)
(* (bwrap spawn and wait), then awaits BubblejailInit.__aexit__.  As in    *)
(* Python, __aexit__ runs only when __aenter__ returned: an exception      *)
(* raised inside __aenter__ leaves the `async with` statement directly.    *)
(*                                                                         *)
(* The D-Bus proxy (xdg-dbus-proxy), bwrap and the in-sandbox helper are   *)
(* external processes: their steps are environment actions.  The proxy     *)
(* creates its two sockets and then writes one byte to its --fd.           *)
(* An Optional[int] returncode is a set holding at most one exit code:     *)
(* {} is None.                                                             *)
(***************************************************************************)
EXTENDS Integers, Sequences, FiniteSets, TLC

\* Number of concurrent run invocations on the instance.
NumRunners ==
    2

\* Largest number of entries in the instance's home_plugins directory.
MaxPlugins ==
    2

Runners ==
    1..NumRunners

\* Exit codes of bwrap: the code distinguishes 0 from non-zero.
ExitCodes ==
    {0, 1}

\* Exit status of the proxy: the code only tests it against None.
ProxyExitCodes ==
    {1}

VARIABLES
    nPlugins,     \* entries of plugins_dir (0: directory missing or empty)
    fs,           \* which of the five runtime paths exist
    pc,           \* position of each runner in async_run_init
    dryRun,       \* the dry_run argument of each run
    activated,    \* init.activated_home_plugins
    exitLog,      \* plugin.exit() calls made by the run, in call order
    tempFiles,    \* init.temp_files: "none", "open" or "closed"
    pipeFds,      \* dbus_proxy_pipe_read/write in the runner: "none" or "open"
    pipeByte,     \* a byte written by the proxy sits unread in the ready pipe
    readyFut,     \* dbus_proxy_ready_future: "none", "pending", "done", "cancelled"
    holdsDir,     \* the run created the runtime directory that now exists
    proxy,        \* the xdg-dbus-proxy process of the run
    bwrap,        \* the bwrap process of the run
    pending,      \* exception in flight while __aexit__ runs
    result,       \* what async_run_init returned or raised
    drainLog,     \* the steps of __aexit__ the run has made, in order
    sigterm,      \* what became of a SIGTERM sent to the runner process
    build,        \* a call of BubblejailInit.genetate_args in progress
    meta,         \* the instance's metadata file and the calls made on it
    edit,         \* a call of edit_config_in_editor in progress
    rpc           \* a call of send_run_rpc in progress

\* State of the operations that are no part of a run.
pureVars ==
    <<build, meta, edit, rpc>>

vars ==
    <<nPlugins, fs, pc, dryRun, activated, exitLog, tempFiles, pipeFds,
      pipeByte, readyFut, holdsDir, proxy, bwrap, pending, result,
      drainLog, sigterm, pureVars>>

NoPaths ==
    [runtimeDir |-> FALSE, helperDir |-> FALSE, helperSocket |-> FALSE,
     sessionSocket |-> FALSE, systemSocket |-> FALSE]

NoProcess ==
    [st |-> "none", sig |-> FALSE, code |-> {}, rc |-> {}]

NoError ==
    [kind |-> "none", code |-> {}]

Raise(kind) ==
    [kind |-> kind, code |-> {}]

\* No genetate_args call, metadata access, edit or RPC is in progress.
NoBuild ==
    [pc |-> "none",
     is_shell_debug |-> FALSE,
     is_log_dbus |-> FALSE,
     yielded |-> <<>>,
     sent |-> <<>>,
     bwrap_options_args |-> <<>>,
     temp_files |-> <<>>,
     file_descriptors_to_pass |-> <<>>,
     dbus_session_opts |-> {},
     dbus_system_opts |-> {},
     seccomp_state |-> {},
     executable_args |-> <<>>,
     dbus_proxy_args |-> <<>>,
     dbus_proxy_pipe |-> <<>>,
     args_fd |-> {},
     seccomp_fd |-> {},
     inherited |-> {},
     args_file |-> <<>>,
     args_to_run |-> <<>>,
     extra_bwrap_args |-> {},
     debug_helper_script |-> {},
     bwrap_args |-> <<>>,
     error |-> "none"]

NoMeta ==
    [pc |-> "none", initial |-> {}, file |-> {}, calls |-> <<>>]

NoEdit ==
    [pc |-> "none", original |-> <<>>, config |-> <<>>, opened_w |-> FALSE,
     temp |-> {}, mtime |-> 0, initial_modification_time |-> 0,
     printed |-> <<>>, raised |-> "none"]

NoRpc ==
    [pc |-> "none", args_to_run |-> <<>>, wait_for_response |-> FALSE,
     listening |-> FALSE, fs_before |-> NoPaths, conn |-> "none",
     paused |-> FALSE,
     written |-> <<>>, reply |-> {}, reads |-> 0, data |-> {},
     raised |-> "none"]

Init ==
    /\ nPlugins \in 0..MaxPlugins
    /\ fs = NoPaths
    /\ pc = [r \in Runners |-> "idle"]
    /\ dryRun = [r \in Runners |-> FALSE]
    /\ activated = [r \in Runners |-> <<>>]
    /\ exitLog = [r \in Runners |-> <<>>]
    /\ tempFiles = [r \in Runners |-> "none"]
    /\ pipeFds = [r \in Runners |-> "none"]
    /\ pipeByte = [r \in Runners |-> FALSE]
    /\ readyFut = [r \in Runners |-> "none"]
    /\ holdsDir = [r \in Runners |-> FALSE]
    /\ proxy = [r \in Runners |-> NoProcess]
    /\ bwrap = [r \in Runners |-> NoProcess]
    /\ pending = [r \in Runners |-> NoError]
    /\ result = [r \in Runners |-> NoError]
    /\ drainLog = [r \in Runners |-> <<>>]
    /\ sigterm = [r \in Runners |-> "none"]
    /\ build = NoBuild
    /\ meta = NoMeta
    /\ edit = NoEdit
    /\ rpc = NoRpc

\* The `async with` statement is left with an exception and no __aexit__.
AenterRaises(r, err) ==
    /\ pc' = [pc EXCEPT ![r] = "done"]
    /\ result' = [result EXCEPT ![r] = err]

\* async_run_init up to the plugin loop of __aenter__: every entry of
\* plugins_dir is entered and appended, in directory order.
AenterPlugins(r, d) ==
    /\ pc[r] = "idle"
    /\ pc' = [pc EXCEPT ![r] = "genargs"]
    /\ dryRun' = [dryRun EXCEPT ![r] = d]
    /\ activated' = [activated EXCEPT ![r] = [i \in 1..nPlugins |-> i]]
    /\ UNCHANGED <<nPlugins, fs, exitLog, tempFiles, pipeFds, pipeByte,
                   readyFut, holdsDir, proxy, bwrap, pending, result>>
    /\ UNCHANGED <<drainLog, sigterm, pureVars>>

\* genetate_args.  It raises TypeError on an unknown directive (or KeyError
\* on a missing DBUS_SESSION_BUS_ADDRESS) after any number of temp files
\* were opened and before pipe2.  Otherwise it returns with temp_files
\* holding the services' files and with the ready pipe created.
GenerateArgs(r) ==
    /\ pc[r] = "genargs"
    /\ \/ /\ \E files \in {"none", "open"} :
                tempFiles' = [tempFiles EXCEPT ![r] = files]
          /\ AenterRaises(r, Raise("TypeError"))
          /\ UNCHANGED pipeFds
       \/ /\ tempFiles' = [tempFiles EXCEPT ![r] = "open"]
          /\ pipeFds' = [pipeFds EXCEPT ![r] = "open"]
          /\ pc' = [pc EXCEPT ![r] = "mkdir"]
          /\ UNCHANGED result
    /\ UNCHANGED <<nPlugins, fs, dryRun, activated, exitLog, pipeByte,
                   readyFut, holdsDir, proxy, bwrap, pending>>
    /\ UNCHANGED <<drainLog, sigterm, pureVars>>

\* runtime_dir.mkdir(exist_ok=False): TRUE when the directory is created.
MkdirExclusive(exists) ==
    ~exists

\* runtime_dir.mkdir(mode=0o700, parents=True, exist_ok=False), then
\* helper_runtime_dir.mkdir(mode=0o700).
MkdirRuntime(r) ==
    /\ pc[r] = "mkdir"
    /\ IF MkdirExclusive(fs.runtimeDir)
       THEN /\ fs' = [fs EXCEPT !.runtimeDir = TRUE, !.helperDir = TRUE]
            /\ holdsDir' = [holdsDir EXCEPT ![r] = TRUE]
            /\ pc' = [pc EXCEPT ![r] = "spawn_proxy"]
            /\ UNCHANGED result
       ELSE /\ AenterRaises(r, Raise("FileExistsError"))
            /\ UNCHANGED <<fs, holdsDir>>
    /\ UNCHANGED <<nPlugins, dryRun, activated, exitLog, tempFiles, pipeFds,
                   pipeByte, readyFut, proxy, bwrap, pending>>
    /\ UNCHANGED <<drainLog, sigterm, pureVars>>

\* add_reader(dbus_proxy_pipe_read, proxy_ready_callback), then
\* create_subprocess_exec(*dbus_proxy_args, pass_fds=[dbus_proxy_pipe_write]);
\* a failing exec raises out of __aenter__.
SpawnProxy(r) ==
    /\ pc[r] = "spawn_proxy"
    /\ readyFut' = [readyFut EXCEPT ![r] = "pending"]
    /\ \/ /\ proxy' = [proxy EXCEPT ![r].st = "starting"]
          /\ pc' = [pc EXCEPT ![r] = "wait_proxy"]
          /\ UNCHANGED result
       \/ /\ AenterRaises(r, Raise("OSError"))
          /\ UNCHANGED proxy
    /\ UNCHANGED <<nPlugins, fs, dryRun, activated, exitLog, tempFiles,
                   pipeFds, pipeByte, holdsDir, bwrap, pending>>
    /\ UNCHANGED <<drainLog, sigterm, pureVars>>

\* Environment: the proxy binds its session and system sockets and writes
\* one byte to the fd given as --fd.
ProxyReady(r) ==
    /\ proxy[r].st = "starting"
    /\ fs.runtimeDir /\ holdsDir[r]
    /\ proxy' = [proxy EXCEPT ![r].st = "ready", ![r].sig = TRUE]
    /\ fs' = [fs EXCEPT !.sessionSocket = TRUE, !.systemSocket = TRUE]
    /\ pipeByte' = [pipeByte EXCEPT ![r] = TRUE]
    /\ UNCHANGED <<nPlugins, pc, dryRun, activated, exitLog, tempFiles,
                   pipeFds, readyFut, holdsDir, bwrap, pending, result>>
    /\ UNCHANGED <<drainLog, sigterm, pureVars>>

\* Environment: the proxy process exits (on its own, or after SIGTERM).
ProxyExit(r, c) ==
    /\ proxy[r].st \in {"starting", "ready"}
    /\ proxy' = [proxy EXCEPT ![r].st = "exited", ![r].code = {c}]
    /\ UNCHANGED <<nPlugins, fs, pc, dryRun, activated, exitLog, tempFiles,
                   pipeFds, pipeByte, readyFut, holdsDir, bwrap, pending,
                   result>>
    /\ UNCHANGED <<drainLog, sigterm, pureVars>>

\* The runner is suspended in an await, so its event loop dispatches events.
LoopRuns(r) ==
    pc[r] \in {"wait_proxy", "wait_bwrap", "exit_wait"}

\* Open write ends of the ready pipe: the runner's own end, which pipe2
\* returned and the code never closes, and the copy the proxy inherited.
PipeWriters(r) ==
    {w \in {"runner", "proxy"} :
        \/ w = "runner" /\ pipeFds[r] = "open"
        \/ w = "proxy" /\ proxy[r].st \in {"starting", "ready"}}

\* The read end is readable: data is waiting, or EOF (no write end left).
PipeReadable(r) ==
    pipeByte[r] \/ PipeWriters(r) = {}

\* proxy_ready_callback: read the pipe, set the future, remove the reader.
PipeEvent(r) ==
    /\ LoopRuns(r)
    /\ readyFut[r] = "pending"
    /\ PipeReadable(r)
    /\ readyFut' = [readyFut EXCEPT ![r] = "done"]
    /\ pipeByte' = [pipeByte EXCEPT ![r] = FALSE]
    /\ UNCHANGED <<nPlugins, fs, pc, dryRun, activated, exitLog, tempFiles,
                   pipeFds, holdsDir, proxy, bwrap, pending, result>>
    /\ UNCHANGED <<drainLog, sigterm, pureVars>>

\* The loop's child watcher reports the proxy's exit: returncode is set.
ChildEvent(r) ==
    /\ LoopRuns(r)
    /\ proxy[r].st = "exited"
    /\ proxy[r].rc = {}
    /\ proxy' = [proxy EXCEPT ![r].rc = proxy[r].code]
    /\ UNCHANGED <<nPlugins, fs, pc, dryRun, activated, exitLog, tempFiles,
                   pipeFds, pipeByte, readyFut, holdsDir, bwrap, pending,
                   result>>
    /\ UNCHANGED <<drainLog, sigterm, pureVars>>

\* wait_for(dbus_proxy_ready_future, timeout=1): the timeout elapses first.
ProxyTimeout(r) ==
    /\ pc[r] = "wait_proxy"
    /\ readyFut[r] = "pending"
    /\ readyFut' = [readyFut EXCEPT ![r] = "cancelled"]
    /\ AenterRaises(r, Raise("TimeoutError"))
    /\ UNCHANGED <<nPlugins, fs, dryRun, activated, exitLog, tempFiles,
                   pipeFds, pipeByte, holdsDir, proxy, bwrap, pending>>
    /\ UNCHANGED <<drainLog, sigterm, pureVars>>

\* `if self.dbus_proxy_process.returncode is not None: raise ValueError`.
ProxyReturncodeSet(r) ==
    proxy[r].rc # {}

\* WaitProxyReturn without the returncode check after the wait.
WaitProxyReturnUnchecked(r) ==
    /\ pc[r] = "wait_proxy"
    /\ readyFut[r] = "done"
    /\ pc' = [pc EXCEPT ![r] = "body"]
    /\ UNCHANGED <<nPlugins, fs, dryRun, activated, exitLog, tempFiles,
                   pipeFds, pipeByte, readyFut, holdsDir, proxy, bwrap,
                   pending, result>>
    /\ UNCHANGED <<drainLog, sigterm, pureVars>>

\* wait_for returns the future's result; then the returncode check.
WaitProxyReturn(r) ==
    /\ pc[r] = "wait_proxy"
    /\ readyFut[r] = "done"
    /\ IF ProxyReturncodeSet(r)
       THEN AenterRaises(r, [kind |-> "ValueError", code |-> proxy[r].rc])
       ELSE /\ pc' = [pc EXCEPT ![r] = "body"]
            /\ UNCHANGED result
    /\ UNCHANGED <<nPlugins, fs, dryRun, activated, exitLog, tempFiles,
                   pipeFds, pipeByte, readyFut, holdsDir, proxy, bwrap,
                   pending>>
    /\ UNCHANGED <<drainLog, sigterm, pureVars>>

\* The body of `async with init:` up to the bwrap spawn.
\* get_args_file_descriptor adds the options file to temp_files; a dry run
\* prints and returns; otherwise create_subprocess_exec(*bwrap_args,
\* pass_fds=init.file_descriptors_to_pass), whose failure raises in the body.
Body(r) ==
    /\ pc[r] = "body"
    /\ tempFiles' = [tempFiles EXCEPT ![r] = "open"]
    /\ IF dryRun[r]
       THEN /\ pc' = [pc EXCEPT ![r] = "exit_term"]
            /\ UNCHANGED <<bwrap, pending>>
       ELSE \/ /\ bwrap' = [bwrap EXCEPT ![r].st = "alive"]
               /\ pc' = [pc EXCEPT ![r] = "wait_bwrap"]
               /\ UNCHANGED pending
            \/ /\ pending' = [pending EXCEPT ![r] = Raise("OSError")]
               /\ pc' = [pc EXCEPT ![r] = "exit_term"]
               /\ UNCHANGED bwrap
    /\ UNCHANGED <<nPlugins, fs, dryRun, activated, exitLog, pipeFds,
                   pipeByte, readyFut, holdsDir, proxy, result>>
    /\ UNCHANGED <<drainLog, sigterm, pureVars>>

\* Environment: the in-sandbox helper binds helper.socket in the helper
\* directory that bwrap mounted at /run/bubblehelp.
HelperBindsSocket(r) ==
    /\ bwrap[r].st = "alive"
    /\ ~bwrap[r].sig
    /\ holdsDir[r] /\ fs.helperDir
    /\ bwrap' = [bwrap EXCEPT ![r].sig = TRUE]
    /\ fs' = [fs EXCEPT !.helperSocket = TRUE]
    /\ UNCHANGED <<nPlugins, pc, dryRun, activated, exitLog, tempFiles,
                   pipeFds, pipeByte, readyFut, holdsDir, proxy, pending,
                   result>>
    /\ UNCHANGED <<drainLog, sigterm, pureVars>>

\* Environment: bwrap exits with the sandboxed program's exit code.
BwrapExit(r, c) ==
    /\ bwrap[r].st = "alive"
    /\ bwrap' = [bwrap EXCEPT ![r].st = "exited", ![r].code = {c}]
    /\ UNCHANGED <<nPlugins, fs, pc, dryRun, activated, exitLog, tempFiles,
                   pipeFds, pipeByte, readyFut, holdsDir, proxy, pending,
                   result>>
    /\ UNCHANGED <<drainLog, sigterm, pureVars>>

\* The error raised after the wait on bwrap, from bwrap_process.returncode:
\* `if bwrap_process.returncode != 0: raise BubblewrapRunError(<message>)`.
\* The exception holds a fixed message and no exit code.
BwrapError(rc) ==
    IF rc # {0} THEN Raise("BubblewrapRunError") ELSE NoError

\* `await task_bwrap_main` returns: the loop has seen bwrap exit.
WaitBwrapReturn(r) ==
    /\ pc[r] = "wait_bwrap"
    /\ bwrap[r].st = "exited"
    /\ bwrap' = [bwrap EXCEPT ![r].rc = bwrap[r].code]
    /\ pending' = [pending EXCEPT ![r] = BwrapError(bwrap[r].code)]
    /\ pc' = [pc EXCEPT ![r] = "exit_term"]
    /\ UNCHANGED <<nPlugins, fs, dryRun, activated, exitLog, tempFiles,
                   pipeFds, pipeByte, readyFut, holdsDir, proxy, result>>
    /\ UNCHANGED <<drainLog, sigterm, pureVars>>

\* The task is cancelled at one of its awaits.  In wait_for (inside
\* __aenter__) and in dbus_proxy_process.wait() (inside __aexit__) the
\* CancelledError propagates; around `await task_bwrap_main` it is caught
\* ('Bwrap cancelled') and the returncode check follows with returncode None.
Cancel(r) ==
    /\ \/ /\ pc[r] \in {"wait_proxy", "exit_wait"}
          /\ AenterRaises(r, Raise("CancelledError"))
          /\ UNCHANGED pending
       \/ /\ pc[r] = "wait_bwrap"
          /\ pending' = [pending EXCEPT ![r] = BwrapError(bwrap[r].rc)]
          /\ pc' = [pc EXCEPT ![r] = "exit_term"]
          /\ UNCHANGED result
    /\ UNCHANGED <<nPlugins, fs, dryRun, activated, exitLog, tempFiles,
                   pipeFds, pipeByte, readyFut, holdsDir, proxy, bwrap>>
    /\ UNCHANGED <<drainLog, sigterm, pureVars>>

\* __aexit__ that terminates the proxy and does not await its exit.
ExitTerminateProxyNoWait(r) ==
    /\ pc[r] = "exit_term"
    /\ pc' = [pc EXCEPT ![r] = "exit_close"]
    /\ UNCHANGED <<nPlugins, fs, dryRun, activated, exitLog, tempFiles,
                   pipeFds, pipeByte, readyFut, holdsDir, proxy, bwrap,
                   pending, result>>
    /\ drainLog' = [drainLog EXCEPT ![r] = Append(@, "terminate_proxy")]
    /\ UNCHANGED <<sigterm, pureVars>>

\* __aexit__: dbus_proxy_process.terminate(); asyncio raises
\* ProcessLookupError when the returncode is already set, which is caught
\* and skips the wait.
ExitTerminateProxy(r) ==
    /\ pc[r] = "exit_term"
    /\ pc' = [pc EXCEPT ![r] = IF ProxyReturncodeSet(r) THEN "exit_close"
                                ELSE "exit_wait"]
    /\ UNCHANGED <<nPlugins, fs, dryRun, activated, exitLog, tempFiles,
                   pipeFds, pipeByte, readyFut, holdsDir, proxy, bwrap,
                   pending, result>>
    /\ drainLog' = [drainLog EXCEPT ![r] = Append(@, "terminate_proxy")]
    /\ UNCHANGED <<sigterm, pureVars>>

\* __aexit__: `await self.dbus_proxy_process.wait()` returns.
ExitProxyWaited(r) ==
    /\ pc[r] = "exit_wait"
    /\ ProxyReturncodeSet(r)
    /\ pc' = [pc EXCEPT ![r] = "exit_close"]
    /\ UNCHANGED <<nPlugins, fs, dryRun, activated, exitLog, tempFiles,
                   pipeFds, pipeByte, readyFut, holdsDir, proxy, bwrap,
                   pending, result>>
    /\ UNCHANGED <<drainLog, sigterm, pureVars>>

\* __aexit__: `for t in self.temp_files: t.close()`.  The two fds of the
\* ready pipe are plain ints outside temp_files and stay open.
ExitCloseTempFiles(r) ==
    /\ pc[r] = "exit_close"
    /\ tempFiles' = [tempFiles EXCEPT ![r] = "closed"]
    /\ pc' = [pc EXCEPT ![r] = "exit_rm_hsock"]
    /\ UNCHANGED <<nPlugins, fs, dryRun, activated, exitLog, pipeFds,
                   pipeByte, readyFut, holdsDir, proxy, bwrap, pending,
                   result>>
    /\ drainLog' = [drainLog EXCEPT ![r] = Append(@, "close_temp_files")]
    /\ UNCHANGED <<sigterm, pureVars>>

\* Path.rmdir(): removes an existing empty directory; otherwise OSError.
RmdirOk(exists, empty) ==
    exists /\ empty

\* __aexit__: helper_socket_path.unlink(), FileNotFoundError ignored.
ExitUnlinkHelperSocket(r) ==
    /\ pc[r] = "exit_rm_hsock"
    /\ fs' = [fs EXCEPT !.helperSocket = FALSE]
    /\ pc' = [pc EXCEPT ![r] = "exit_rm_hdir"]
    /\ UNCHANGED <<nPlugins, dryRun, activated, exitLog, tempFiles, pipeFds,
                   pipeByte, readyFut, holdsDir, proxy, bwrap, pending,
                   result>>
    /\ drainLog' = [drainLog EXCEPT ![r] = Append(@, "unlink_helper_socket")]
    /\ UNCHANGED <<sigterm, pureVars>>

\* __aexit__: helper_runtime_dir.rmdir(), every OSError ignored.
ExitRmdirHelper(r) ==
    /\ pc[r] = "exit_rm_hdir"
    /\ fs' = IF RmdirOk(fs.helperDir, ~fs.helperSocket)
             THEN [fs EXCEPT !.helperDir = FALSE]
             ELSE fs
    /\ pc' = [pc EXCEPT ![r] = "exit_rm_session"]
    /\ UNCHANGED <<nPlugins, dryRun, activated, exitLog, tempFiles, pipeFds,
                   pipeByte, readyFut, holdsDir, proxy, bwrap, pending,
                   result>>
    /\ drainLog' = [drainLog EXCEPT ![r] = Append(@, "rmdir_helper_dir")]
    /\ UNCHANGED <<sigterm, pureVars>>

\* __aexit__: dbus_session_socket_path.unlink(), FileNotFoundError ignored.
ExitUnlinkSession(r) ==
    /\ pc[r] = "exit_rm_session"
    /\ fs' = [fs EXCEPT !.sessionSocket = FALSE]
    /\ pc' = [pc EXCEPT ![r] = "exit_rm_system"]
    /\ UNCHANGED <<nPlugins, dryRun, activated, exitLog, tempFiles, pipeFds,
                   pipeByte, readyFut, holdsDir, proxy, bwrap, pending,
                   result>>
    /\ drainLog' = [drainLog EXCEPT ![r] = Append(@, "unlink_session_socket")]
    /\ UNCHANGED <<sigterm, pureVars>>

\* __aexit__: dbus_system_socket_path.unlink(), FileNotFoundError ignored.
ExitUnlinkSystem(r) ==
    /\ pc[r] = "exit_rm_system"
    /\ fs' = [fs EXCEPT !.systemSocket = FALSE]
    /\ pc' = [pc EXCEPT ![r] = "exit_rm_rdir"]
    /\ UNCHANGED <<nPlugins, dryRun, activated, exitLog, tempFiles, pipeFds,
                   pipeByte, readyFut, holdsDir, proxy, bwrap, pending,
                   result>>
    /\ drainLog' = [drainLog EXCEPT ![r] = Append(@, "unlink_system_socket")]
    /\ UNCHANGED <<sigterm, pureVars>>

\* __aexit__: runtime_dir.rmdir(), every OSError ignored.
ExitRmdirRuntime(r) ==
    /\ pc[r] = "exit_rm_rdir"
    /\ IF RmdirOk(fs.runtimeDir,
                  ~(fs.helperDir \/ fs.sessionSocket \/ fs.systemSocket))
       THEN /\ fs' = [fs EXCEPT !.runtimeDir = FALSE]
            /\ holdsDir' = [q \in Runners |-> FALSE]
       ELSE UNCHANGED <<fs, holdsDir>>
    /\ pc' = [pc EXCEPT ![r] = "exit_plugins"]
    /\ UNCHANGED <<nPlugins, dryRun, activated, exitLog, tempFiles, pipeFds,
                   pipeByte, readyFut, proxy, bwrap, pending, result>>
    /\ drainLog' = [drainLog EXCEPT ![r] = Append(@, "rmdir_runtime_dir")]
    /\ UNCHANGED <<sigterm, pureVars>>

\* __aexit__: `for plugin in self.activated_home_plugins: plugin.exit()`;
\* then the `async with` statement re-raises the body's exception, if any.
ExitPlugins(r) ==
    /\ pc[r] = "exit_plugins"
    /\ exitLog' = [exitLog EXCEPT ![r] = activated[r]]
    /\ result' = [result EXCEPT ![r] = IF pending[r] = NoError
                                       THEN Raise("ok") ELSE pending[r]]
    /\ pc' = [pc EXCEPT ![r] = "done"]
    /\ UNCHANGED <<nPlugins, fs, dryRun, activated, tempFiles, pipeFds,
                   pipeByte, readyFut, holdsDir, proxy, bwrap, pending>>
    /\ drainLog' = [drainLog EXCEPT ![r] = Append(@, "plugin_exits")]
    /\ UNCHANGED <<sigterm, pureVars>>

\* is_running decided by the runtime directory.
is_running_by_runtime_dir ==
    fs.runtimeDir

\* BubblejailInstance.is_running: path_runtime_helper_socket.is_socket().
is_running ==
    fs.helperSocket

\* One step of run r or of the processes it spawned.
RunnerStep(r) ==
    \/ \E d \in BOOLEAN : AenterPlugins(r, d)
    \/ GenerateArgs(r)
    \/ MkdirRuntime(r)
    \/ SpawnProxy(r)
    \/ ProxyReady(r)
    \/ \E c \in ProxyExitCodes : ProxyExit(r, c)
    \/ PipeEvent(r)
    \/ ChildEvent(r)
    \/ ProxyTimeout(r)
    \/ WaitProxyReturn(r)
    \/ Body(r)
    \/ HelperBindsSocket(r)
    \/ \E c \in ExitCodes : BwrapExit(r, c)
    \/ WaitBwrapReturn(r)
    \/ Cancel(r)
    \/ ExitTerminateProxy(r)
    \/ ExitProxyWaited(r)
    \/ ExitCloseTempFiles(r)
    \/ ExitUnlinkHelperSocket(r)
    \/ ExitRmdirHelper(r)
    \/ ExitUnlinkSession(r)
    \/ ExitUnlinkSystem(r)
    \/ ExitRmdirRuntime(r)
    \/ ExitPlugins(r)

Next ==
    \E r \in Runners : RunnerStep(r)

Spec ==
    Init /\ [][Next]_vars

\* SIGTERM reaches the runner process.  Until loop.add_signal_handler ran
\* (right after the bwrap spawn) the signal has its default action and ends
\* the process where it stands: nothing of __aexit__ runs, and the kernel
\* closes the process's fds.  From then on the loop queues the handler; the
\* registration is never removed.
Sigterm(r) ==
    /\ pc[r] \notin {"idle", "done", "killed"}
    /\ sigterm[r] = "none"
    /\ IF bwrap[r].st = "none"
       THEN /\ sigterm' = [sigterm EXCEPT ![r] = "killed"]
            /\ pc' = [pc EXCEPT ![r] = "killed"]
            /\ tempFiles' = [tempFiles EXCEPT ![r] =
                                IF @ = "open" THEN "closed" ELSE @]
            /\ pipeFds' = [pipeFds EXCEPT ![r] =
                              IF @ = "open" THEN "closed" ELSE @]
       ELSE /\ sigterm' = [sigterm EXCEPT ![r] = "queued"]
            /\ UNCHANGED <<pc, tempFiles, pipeFds>>
    /\ UNCHANGED <<nPlugins, fs, dryRun, activated, exitLog, pipeByte,
                   readyFut, holdsDir, proxy, bwrap, pending, result,
                   drainLog, pureVars>>

\* sigterm_bubblejail_handler(bwrap_pid), called by the loop.  It reads the
\* first child of bwrap from /proc and sends it SIGTERM.  With bwrap gone,
\* or with no child of bwrap yet, open() or split()[0] raises inside the
\* callback and no signal is sent.
SigtermHandler(r) ==
    /\ sigterm[r] = "queued"
    /\ LoopRuns(r)
    /\ \/ /\ bwrap[r].st = "alive"
          /\ sigterm' = [sigterm EXCEPT ![r] = "delivered"]
       \/ /\ bwrap[r].st # "alive" \/ ~bwrap[r].sig
          /\ sigterm' = [sigterm EXCEPT ![r] = "failed"]
    /\ UNCHANGED <<nPlugins, fs, pc, dryRun, activated, exitLog, tempFiles,
                   pipeFds, pipeByte, readyFut, holdsDir, proxy, bwrap,
                   pending, result, drainLog, pureVars>>

\* Environment: the helper that received SIGTERM exits, and bwrap with it.
HelperTerminates(r) ==
    /\ sigterm[r] = "delivered"
    /\ \E c \in ExitCodes : BwrapExit(r, c)

SigNext ==
    \E r \in Runners :
        \/ RunnerStep(r)
        \/ Sigterm(r)
        \/ SigtermHandler(r)

\* Runs with SIGTERM.  The loop keeps running the coroutine and its
\* callbacks, child processes keep making their steps, and a helper that
\* got SIGTERM exits.
SigSpec ==
    /\ Init
    /\ [][SigNext]_vars
    /\ \A r \in Runners :
          /\ WF_vars(RunnerStep(r))
          /\ WF_vars(SigtermHandler(r))
          /\ WF_vars(HelperTerminates(r))

\* The __aexit__ steps whose try statement catches FileNotFoundError only:
\* the unlink of helper.socket and of the two proxy sockets.
UnlinkSteps ==
    [exit_rm_hsock |-> "unlink_helper_socket",
     exit_rm_session |-> "unlink_session_socket",
     exit_rm_system |-> "unlink_system_socket"]

\* __aexit__: Path.unlink() raises an OSError that is not FileNotFoundError
\* (IsADirectoryError when the sandboxed program made a directory at the
\* socket's place, PermissionError).  No except clause matches: the error
\* leaves __aexit__ at this step, and the `async with` statement raises it
\* in place of the exception of its body.
ExitUnlinkRaises(r) ==
    /\ pc[r] \in DOMAIN UnlinkSteps
    /\ result' = [result EXCEPT ![r] = Raise("OSError")]
    /\ pc' = [pc EXCEPT ![r] = "done"]
    /\ drainLog' = [drainLog EXCEPT ![r] = Append(@, UnlinkSteps[pc[r]])]
    /\ UNCHANGED <<nPlugins, fs, dryRun, activated, exitLog, tempFiles,
                   pipeFds, pipeByte, readyFut, holdsDir, proxy, bwrap,
                   pending>>
    /\ UNCHANGED <<sigterm, pureVars>>

FaultNext ==
    \E r \in Runners :
        \/ RunnerStep(r)
        \/ ExitUnlinkRaises(r)

\* Runs in which a step of __aexit__ may fail.
FaultSpec ==
    Init /\ [][FaultNext]_vars

(***************************************************************************)
(* BubblejailInit.genetate_args, get_args_file_descriptor and the fds      *)
(* handed to bwrap.  The loop over the services and over each service's    *)
(* generator is one stream of yielded directives; a step of the model is   *)
(* one iteration of the inner `while True` loop.                           *)
(***************************************************************************)

\* Largest number of items the services' generators yield in one build.
MaxDirectives ==
    3

\* fds of the runner process that are open before the build.
StdFds ==
    {0, 1, 2}

home_bind_path ==
    "/data/instance/home"

dbus_session_socket_path ==
    "/run/bubblejail/instance/dbus_session_proxy"

dbus_system_socket_path ==
    "/run/bubblejail/instance/dbus_system_proxy"

helper_runtime_dir ==
    "/run/bubblejail/instance/helper"

\* Bind(source, dest).to_args()
Bind(source, dest) ==
    <<"--bind", source, dest>>

\* The two placeholder requests a generator can yield.
WantsDirectives ==
    {[t |-> "ServiceWantsHomeBind", a |-> <<>>],
     [t |-> "ServiceWantsDbusSessionBind", a |-> <<>>]}

\* What a generator can yield besides a placeholder: t is the class of the
\* directive, a its payload (to_args() of a BwrapConfigBase or of a D-Bus
\* rule, dest of a FileTransfer, launch_args of LaunchArguments); p is the
\* priority of a LaunchArguments.
PlainDirectives ==
    {[t |-> "BwrapConfigBase", a |-> <<"--setenv", "K", "V">>],
     [t |-> "FileTransfer", a |-> <<"/etc/passwd">>],
     [t |-> "FileTransfer", a |-> <<"/etc/group">>],
     [t |-> "DbusSessionArgs", a |-> <<"--talk=org.a">>],
     [t |-> "DbusSessionArgs", a |-> <<"--own=org.b">>],
     [t |-> "DbusSystemArgs", a |-> <<"--talk=org.c">>],
     [t |-> "SeccompDirective", a |-> <<"chroot">>],
     [t |-> "LaunchArguments", a |-> <<"firefox">>, p |-> 0],
     [t |-> "LaunchArguments", a |-> <<"--safe-mode">>, p |-> 1],
     [t |-> "Unknown", a |-> <<>>]}

\* What a generator can yield in answer to send(value): any directive, or a
\* bind of the value it was sent.
SendReplies(value) ==
    PlainDirectives \cup WantsDirectives
        \cup {[t |-> "BwrapConfigBase", a |-> Bind(value, "/home/user")]}

\* BubblejailInit.__init__: the fields genetate_args works on.
NewInit(is_shell_debug, is_log_dbus) ==
    [pc |-> "services",
     is_shell_debug |-> is_shell_debug,
     is_log_dbus |-> is_log_dbus,
     yielded |-> <<>>,
     sent |-> <<>>,
     bwrap_options_args |-> <<>>,
     temp_files |-> <<>>,
     file_descriptors_to_pass |-> <<>>,
     dbus_session_opts |-> {},
     dbus_system_opts |-> {},
     seccomp_state |-> {},
     executable_args |-> <<>>,
     dbus_proxy_args |-> <<>>,
     dbus_proxy_pipe |-> <<>>,
     args_fd |-> {},
     seccomp_fd |-> {},
     inherited |-> {},
     args_file |-> <<>>,
     args_to_run |-> <<>>,
     extra_bwrap_args |-> {},
     debug_helper_script |-> {},
     bwrap_args |-> <<>>,
     error |-> "none"]

\* Elements of a sequence.
Range(s) ==
    {s[i] : i \in 1..Len(s)}

\* fds open in the runner process: temp_files keeps every temp file open.
OpenFds(b) ==
    StdFds \cup {f.fd : f \in Range(b.temp_files)}
           \cup Range(b.dbus_proxy_pipe)

\* The fd a new open file gets: the lowest number not in use.
NewFd(used) ==
    CHOOSE n \in 0..Cardinality(used) :
        n \notin used /\ \A m \in 0..(n - 1) : m \in used

\* A temp file that is kept open and not put on the list of fds to pass.
AddTempFileNotPassed(b, holds) ==
    [b EXCEPT
        !.temp_files = Append(@, [fd |-> NewFd(OpenFds(b)), holds |-> holds])]

\* copy_data_to_temp_file, then temp_files.append and
\* file_descriptors_to_pass.append.
AddTempFile(b, holds) ==
    [b EXCEPT
        !.temp_files = Append(@, [fd |-> NewFd(OpenFds(b)), holds |-> holds]),
        !.file_descriptors_to_pass = Append(@, NewFd(OpenFds(b)))]

\* The options genetate_args appends before any service is asked, with
\* --new-session added in every mode.
PrologueAlwaysNewSession(is_shell_debug) ==
    <<"--unshare-all", "--die-with-parent", "--as-pid-1", "--new-session",
      "--proc", "/proc", "--dev", "/dev", "--clearenv">>

\* The options genetate_args appends before any service is asked.
Prologue(is_shell_debug) ==
    <<"--unshare-all", "--die-with-parent", "--as-pid-1">>
        \o (IF ~is_shell_debug THEN <<"--new-session">> ELSE <<>>)
        \o <<"--proc", "/proc", "--dev", "/dev", "--clearenv">>

\* genetate_args up to the service loop.
GenetateArgsBegin(is_shell_debug, is_log_dbus) ==
    /\ build.pc = "none"
    /\ build' = [NewInit(is_shell_debug, is_log_dbus) EXCEPT
                    !.bwrap_options_args = Prologue(is_shell_debug)]
    /\ UNCHANGED <<nPlugins, fs, pc, dryRun, activated, exitLog, tempFiles,
                   pipeFds, pipeByte, readyFut, holdsDir, proxy, bwrap,
                   pending, result, drainLog, sigterm, meta, edit, rpc>>

\* The if/elif chain without the SeccompDirective branch's effect: a seccomp
\* rule is accepted and forgotten.
ProcessDroppingSeccomp(b, config) ==
    IF config.t = "BwrapConfigBase"
    THEN [b EXCEPT !.bwrap_options_args = @ \o config.a]
    ELSE IF config.t = "FileTransfer"
    THEN [AddTempFile(b, "FileTransfer") EXCEPT
            !.bwrap_options_args =
                @ \o <<"--file", ToString(NewFd(OpenFds(b))), config.a[1]>>]
    ELSE IF config.t = "DbusSessionArgs"
    THEN [b EXCEPT !.dbus_session_opts = @ \cup {config.a[1]}]
    ELSE IF config.t = "DbusSystemArgs"
    THEN [b EXCEPT !.dbus_system_opts = @ \cup {config.a[1]}]
    ELSE IF config.t = "SeccompDirective"
    THEN b
    ELSE IF config.t = "LaunchArguments"
    THEN [b EXCEPT !.executable_args = @ \o config.a]
    ELSE [b EXCEPT !.pc = "failed", !.error = "TypeError"]

\* The if/elif chain of the loop body on the directive `config`.
Process(b, config) ==
    IF config.t = "BwrapConfigBase"
    THEN [b EXCEPT !.bwrap_options_args = @ \o config.a]
    ELSE IF config.t = "FileTransfer"
    THEN [AddTempFile(b, "FileTransfer") EXCEPT
            !.bwrap_options_args =
                @ \o <<"--file", ToString(NewFd(OpenFds(b))), config.a[1]>>]
    ELSE IF config.t = "DbusSessionArgs"
    THEN [b EXCEPT !.dbus_session_opts = @ \cup {config.a[1]}]
    ELSE IF config.t = "DbusSystemArgs"
    THEN [b EXCEPT !.dbus_system_opts = @ \cup {config.a[1]}]
    ELSE IF config.t = "SeccompDirective"
    THEN [b EXCEPT !.seccomp_state =
                      IF @ = {} THEN {{config}}
                      ELSE {rules \cup {config} : rules \in @}]
    ELSE IF config.t = "LaunchArguments"
    THEN [b EXCEPT !.executable_args = @ \o config.a]
    ELSE [b EXCEPT !.pc = "failed", !.error = "TypeError"]

\* The frame of a step of the build.
BuildFrame ==
    UNCHANGED <<nPlugins, fs, pc, dryRun, activated, exitLog, tempFiles,
                pipeFds, pipeByte, readyFut, holdsDir, proxy, bwrap,
                pending, result, drainLog, sigterm, meta, edit, rpc>>

\* One loop iteration: next() yields a directive that is no placeholder.
NextDirective(config) ==
    /\ build.pc = "services"
    /\ Len(build.yielded) < MaxDirectives
    /\ build' = Process([build EXCEPT !.yielded = Append(@, config)],
                        config)
    /\ BuildFrame

\* The value sent for a placeholder request.
SentValue(wants) ==
    IF wants.t = "ServiceWantsHomeBind" THEN home_bind_path
    ELSE dbus_session_socket_path

\* One loop iteration: next() yields a placeholder request, and
\* config_iterator.send(value) returns what the generator yields next; that
\* item goes through the if/elif chain.
NextWants(wants, reply) ==
    /\ build.pc = "services"
    /\ Len(build.yielded) + 1 < MaxDirectives
    /\ build' = Process([build EXCEPT
                            !.yielded = @ \o <<wants, reply>>,
                            !.sent = Append(@, SentValue(wants))],
                        reply)
    /\ BuildFrame

\* One loop iteration: next() yields a placeholder request that was the
\* generator's last item; send() raises StopIteration, which nothing in
\* genetate_args catches.
NextWantsLast(wants) ==
    /\ build.pc = "services"
    /\ Len(build.yielded) < MaxDirectives
    /\ build' = [build EXCEPT
                    !.yielded = Append(@, wants),
                    !.sent = Append(@, SentValue(wants)),
                    !.pc = "failed",
                    !.error = "StopIteration"]
    /\ BuildFrame

\* All orders in which a set can be iterated.
Orders(S) ==
    {s \in [1..Cardinality(S) -> S] : Range(s) = S}

\* The closing binds with the system socket bound under /run only.
FinalBindsRunOnly ==
    Bind(dbus_system_socket_path, "/run/dbus/system_bus_socket")
        \o Bind(helper_runtime_dir, "/run/bubblehelp")

\* The binds genetate_args appends last: the system proxy socket "twice, in
\* /var and /run", then the helper directory.
FinalBinds ==
    Bind(dbus_system_socket_path, "/var/run/dbus/system_bus_socket")
        \o Bind(dbus_system_socket_path, "/run/dbus/system_bus_socket")
        \o Bind(helper_runtime_dir, "/run/bubblehelp")

\* genetate_args after the service loop: seccomp export, proxy arguments
\* with pipe2, the binds of the system socket and of the helper directory.
\* environ['DBUS_SESSION_BUS_ADDRESS'] raises KeyError when unset.
GenetateArgsEnd(envSet) ==
    /\ build.pc = "services"
    /\ \E opts \in Orders(build.dbus_session_opts) :
       LET b1 == IF build.seccomp_state # {}
                 THEN [AddTempFile(build, "seccomp") EXCEPT
                         !.seccomp_fd = {NewFd(OpenFds(build))},
                         !.bwrap_options_args =
                             @ \o <<"--seccomp",
                                    ToString(NewFd(OpenFds(build)))>>]
                 ELSE build
           rd == NewFd(OpenFds(b1))
           wr == NewFd(OpenFds(b1) \cup {rd})
           log == IF build.is_log_dbus THEN <<"--log">> ELSE <<>>
       IN  IF ~envSet
           THEN build' = [b1 EXCEPT !.pc = "failed", !.error = "KeyError"]
           ELSE build' = [b1 EXCEPT
                    !.pc = "built",
                    !.dbus_proxy_pipe = <<rd, wr>>,
                    !.dbus_proxy_args =
                        <<"xdg-dbus-proxy", "DBUS_SESSION_BUS_ADDRESS",
                          dbus_session_socket_path,
                          "--fd=" \o ToString(wr)>>
                        \o opts \o <<"--filter">> \o log
                        \o <<"unix:path=/run/dbus/system_bus_socket",
                             dbus_system_socket_path, "--filter">>
                        \o log,
                    !.bwrap_options_args = @ \o FinalBinds]
    /\ BuildFrame

RECURSIVE JoinNul(_)
\* '\0'.join(s): the items of s with a NUL between each two of them.
JoinNul(s) ==
    IF Len(s) <= 1 THEN s
    ELSE <<s[1], "\\0">> \o JoinNul(Tail(s))

\* get_args_file_descriptor: the options, NUL-joined, go to a temp file
\* whose fd is added to file_descriptors_to_pass.
GetArgsFileDescriptor ==
    /\ build.pc = "built"
    /\ build' = [AddTempFile(build, "options") EXCEPT
                    !.pc = "args",
                    !.args_fd = {NewFd(OpenFds(build))},
                    !.args_file = JoinNul(build.bwrap_options_args)]
    /\ BuildFrame

\* BubblejailSettings.HELPER_PATH_STR
HELPER_PATH_STR ==
    "/usr/lib/bubblejail/bubblejail-helper"

\* Values of the args_to_run argument of async_run_init.
ArgsToRun ==
    {<<>>, <<"bash", "-l">>}

\* Values of extra_bwrap_args: None or a list.
ExtraBwrapArgs ==
    {{}, {<<"--cap-add", "CAP_SYS_ADMIN">>}}

\* Values of debug_helper_script: None, or the text read from the script.
DebugHelperScripts ==
    {{}, {"import helper"}}

\* The inner argv made of the services' launch arguments followed by the
\* caller's command.
InnerArgvBoth(args_to_run, executable_args) ==
    executable_args \o args_to_run

\* `if not args_to_run: extend(init.executable_args) else:
\* extend(args_to_run)`.
InnerArgv(args_to_run, executable_args) ==
    IF args_to_run = <<>> THEN executable_args ELSE args_to_run

\* bwrap_args as the body of `async with init:` assembles it.
BwrapArgs(b, args_to_run, extra_bwrap_args, debug_helper_script) ==
    <<"/usr/bin/bwrap", "--args", ToString(CHOOSE fd \in b.args_fd : TRUE)>>
        \o (IF extra_bwrap_args # {}
            THEN CHOOSE extra \in extra_bwrap_args : TRUE
            ELSE <<>>)
        \o (IF debug_helper_script # {}
            THEN <<"python", "-X", "dev", "-c",
                   CHOOSE text \in debug_helper_script : TRUE>>
            ELSE <<HELPER_PATH_STR>>)
        \o (IF b.is_shell_debug THEN <<"--shell">> ELSE <<>>)
        \o InnerArgv(args_to_run, b.executable_args)

\* The body of `async with init:` behind the options fd: the rest of
\* bwrap_args, then
\* create_subprocess_exec(*bwrap_args, pass_fds=file_descriptors_to_pass):
\* the child keeps the listed fds that are open in the runner; every other
\* fd above the standard three is closed in the child.
BuildSpawnBwrap(args_to_run, extra_bwrap_args, debug_helper_script) ==
    /\ build.pc = "args"
    /\ build' = [build EXCEPT
                    !.pc = "spawned",
                    !.args_to_run = args_to_run,
                    !.extra_bwrap_args = extra_bwrap_args,
                    !.debug_helper_script = debug_helper_script,
                    !.bwrap_args = BwrapArgs(build, args_to_run,
                                             extra_bwrap_args,
                                             debug_helper_script),
                    !.inherited = Range(build.file_descriptors_to_pass)
                                      \cap OpenFds(build)]
    /\ BuildFrame

BuildNext ==
    \/ \E d \in BOOLEAN, l \in BOOLEAN : GenetateArgsBegin(d, l)
    \/ \E config \in PlainDirectives : NextDirective(config)
    \/ \E wants \in WantsDirectives :
          \E reply \in SendReplies(SentValue(wants)) :
              NextWants(wants, reply)
    \/ \E wants \in WantsDirectives : NextWantsLast(wants)
    \/ \E envSet \in BOOLEAN : GenetateArgsEnd(envSet)
    \/ GetArgsFileDescriptor
    \/ \E args_to_run \in ArgsToRun, extra_bwrap_args \in ExtraBwrapArgs,
          debug_helper_script \in DebugHelperScripts :
              BuildSpawnBwrap(args_to_run, extra_bwrap_args,
                              debug_helper_script)

\* The state in which no run has started and no plugin directory exists.
PureInit ==
    Init /\ nPlugins = 0

BuildSpec ==
    PureInit /\ [][BuildNext]_vars

(***************************************************************************)
(* The metadata file.  The file is a sequence of `key = value` lines (a    *)
(* flat TOML table), {} when it does not exist; a dict is its keys in      *)
(* insertion order with the value of each.                                 *)
(***************************************************************************)

\* Largest number of setter calls in one run of the metadata model.
MaxMetaCalls ==
    3

\* The two keys with a property and a setter, and a key only other tools
\* write.
MetaKeys ==
    {"creation_profile_name", "desktop_entry_name", "other"}

\* A TOML string value.
Str(v) ==
    [type |-> "str", v |-> v]

\* The values the setters are called with.
MetaValues ==
    {"a", "b"}

\* What the metadata file can hold when the instance object is created.
MetaFiles ==
    {{},
     {<<>>},
     {<<[key |-> "other", value |-> Str("x")]>>},
     {<<[key |-> "creation_profile_name", value |-> [type |-> "int", v |-> "1"]]>>},
     {<<[key |-> "desktop_entry_name", value |-> Str("b")],
        [key |-> "other", value |-> Str("x")]>>}}

EmptyDict ==
    [keys |-> <<>>, val |-> <<>>]

\* toml_loads of the text of a flat table.
toml_loads(lines) ==
    [keys |-> [i \in 1..Len(lines) |-> lines[i].key],
     val |-> [k \in {lines[i].key : i \in 1..Len(lines)} |->
                (CHOOSE l \in {lines[i] : i \in 1..Len(lines)} :
                    l.key = k).value]]

\* toml_dump of a flat dict: one line per key, in the dict's order.
toml_dump(d) ==
    [i \in 1..Len(d.keys) |-> [key |-> d.keys[i], value |-> d.val[d.keys[i]]]]

\* toml_dict[key] = value
SetItem(d, key, value) ==
    IF key \in DOMAIN d.val
    THEN [d EXCEPT !.val = [@ EXCEPT ![key] = value]]
    ELSE [keys |-> Append(d.keys, key),
          val |-> [k \in DOMAIN d.val \cup {key} |->
                     IF k = key THEN value ELSE d.val[k]]]

\* _get_metadata_dict: a missing file gives the empty dict.
get_metadata_dict(file) ==
    IF file = {} THEN EmptyDict
    ELSE toml_loads(CHOOSE lines \in file : TRUE)

\* A save that starts from an empty dict instead of the file's dict.
save_metadata_key_fresh(file, key, value) ==
    {toml_dump(SetItem(EmptyDict, key, value))}

\* _save_metadata_key: the file after the call.
save_metadata_key(file, key, value) ==
    {toml_dump(SetItem(get_metadata_dict(file), key, value))}

\* _get_metadata_value: {} is None, {v} the str returned; a value that is
\* no str raises TypeError.
get_metadata_value(file, key) ==
    LET d == get_metadata_dict(file)
    IN  IF key \notin DOMAIN d.val THEN [raised |-> "none", value |-> {}]
        ELSE IF d.val[key].type = "str"
        THEN [raised |-> "none", value |-> {d.val[key].v}]
        ELSE [raised |-> "TypeError", value |-> {}]

\* The frame of a step on the metadata file.
MetaFrame ==
    UNCHANGED <<nPlugins, fs, pc, dryRun, activated, exitLog, tempFiles,
                pipeFds, pipeByte, readyFut, holdsDir, proxy, bwrap,
                pending, result, drainLog, sigterm, build, edit, rpc>>

\* BubblejailInstance.__init__ on an instance directory whose metadata file
\* holds `file`.
MetaOpen(file) ==
    /\ meta.pc = "none"
    /\ meta' = [pc |-> "open", initial |-> file, file |-> file,
                calls |-> <<>>]
    /\ MetaFrame

\* One of the two setters is called: metadata_creation_profile_name or
\* metadata_desktop_entry_name.
MetaSet(key, value) ==
    /\ meta.pc = "open"
    /\ Len(meta.calls) < MaxMetaCalls
    /\ meta' = [meta EXCEPT
                    !.file = save_metadata_key(meta.file, key, Str(value)),
                    !.calls = Append(@, <<key, value>>)]
    /\ MetaFrame

MetaNext ==
    \/ \E file \in MetaFiles : MetaOpen(file)
    \/ \E key \in MetaKeys \ {"other"}, value \in MetaValues :
          MetaSet(key, value)

MetaSpec ==
    PureInit /\ [][MetaNext]_vars

(***************************************************************************)
(* edit_config_in_editor.  A file's bytes are a sequence of tokens: table  *)
(* headers and the bytes "\r" and "\n".  The editor is an external         *)
(* process: it can leave the temp file alone, touch it, rewrite it within  *)
(* the same timestamp, put an older file in its place, or remove it.      *)
(***************************************************************************)

\* Bytes a services config or an edited file can hold.
EditContents ==
    {<<>>,
     <<"[common]", "\n">>,
     <<"[common]", "\r", "\n">>,
     <<"[common]", "\n", "[x11]", "\n">>,
     <<"[common]", "\r", "[x11]", "\n">>,
     <<"[common", "\n">>,
     <<"[nosuch]", "\n">>}

\* st_mtime values: the temp file is written at time 1.
MTimes ==
    {0, 1, 2}

\* open(path).read(): text mode with universal newlines turns "\r\n" and a
\* lone "\r" into "\n".
RECURSIVE ReadText(_)
ReadText(bytes) ==
    IF bytes = <<>> THEN <<>>
    ELSE IF Head(bytes) = "\r"
    THEN IF Len(bytes) > 1 /\ bytes[2] = "\n"
         THEN <<"\n">> \o ReadText(Tail(Tail(bytes)))
         ELSE <<"\n">> \o ReadText(Tail(bytes))
    ELSE <<Head(bytes)>> \o ReadText(Tail(bytes))

\* open(path, mode='w').write(text): "\n" is written as os.linesep, "\n".
WriteText(text) ==
    text

\* toml_loads accepts the text: every line is a well-formed table header.
TomlParses(text) ==
    \A i \in 1..Len(text) :
        text[i] \in {"\n", "[common]", "[x11]", "[nosuch]"}

\* BubblejailInstanceConfig(conf_dict) accepts the tables: each names a
\* service that exists.
ConfigConstructs(text) ==
    \A i \in 1..Len(text) : text[i] \in {"\n", "[common]", "[x11]"}

\* A check of the new config that accepts every text.
ValidateNothing(text) ==
    "none"

\* BubblejailInstanceConfig(toml_loads(new_config_toml)): the exception it
\* raises, "none" when it returns.
Validate(text) ==
    IF ~TomlParses(text) THEN "TOMLDecodeError"
    ELSE IF ~ConfigConstructs(text) THEN "ConfigError"
    ELSE "none"

\* The mtime test with a strict comparison.
NotModifiedStrict(initial_modification_time, mtime) ==
    initial_modification_time > mtime

\* `if initial_modification_time >= stat(temp_file_path).st_mtime`
NotModified(initial_modification_time, mtime) ==
    initial_modification_time >= mtime

\* The directory TemporaryDirectory() made, as path components.
tempdir ==
    <<"tmp", "tmpq1w2e3">>

\* Path(tempdir + 'temp.toml'): str + str extends the last component of
\* tempdir; no separator is put between the two.
temp_file_path ==
    [tempdir EXCEPT ![Len(tempdir)] = @ \o "temp.toml"]

\* The path lies in the directory or below it.
Inside(path, dir) ==
    /\ Len(path) > Len(dir)
    /\ SubSeq(path, 1, Len(dir)) = dir

\* TemporaryDirectory.__exit__ removes tempdir and what is inside it: what
\* is left of the file at temp_file_path.
Cleanup(temp) ==
    IF Inside(temp_file_path, tempdir) THEN {} ELSE temp

\* The frame of a step of edit_config_in_editor.
EditFrame ==
    UNCHANGED <<nPlugins, fs, pc, dryRun, activated, exitLog, tempFiles,
                pipeFds, pipeByte, readyFut, holdsDir, proxy, bwrap,
                pending, result, drainLog, sigterm, build, meta, rpc>>

\* edit_config_in_editor up to `await p.wait()`: the config is copied to the
\* temp file, its mtime is recorded, and $EDITOR is started; a missing
\* EDITOR raises KeyError.
EditStart(config, hasEditor) ==
    /\ edit.pc = "none"
    /\ edit' = [pc |-> IF hasEditor THEN "editor" ELSE "done",
                original |-> config,
                config |-> config,
                opened_w |-> FALSE,
                temp |-> IF hasEditor THEN {WriteText(ReadText(config))}
                         ELSE Cleanup({WriteText(ReadText(config))}),
                mtime |-> 1,
                initial_modification_time |-> 1,
                printed |-> <<>>,
                raised |-> IF hasEditor THEN "none" ELSE "KeyError"]
    /\ EditFrame

\* Environment: the editor leaves the temp file with these bytes and this
\* mtime, and exits.  Unchanged bytes keep or advance the mtime; new bytes
\* come with any mtime.
EditorExits(bytes, mtime) ==
    /\ edit.pc = "editor"
    /\ {bytes} = edit.temp => mtime >= edit.mtime
    /\ edit' = [edit EXCEPT !.pc = "check", !.temp = {bytes},
                            !.mtime = mtime]
    /\ EditFrame

\* Environment: the editor removes the temp file and exits.
EditorRemoves ==
    /\ edit.pc = "editor"
    /\ edit' = [edit EXCEPT !.pc = "check", !.temp = {}]
    /\ EditFrame

\* edit_config_in_editor after `await p.wait()`, to the end of the
\* `with TemporaryDirectory()` block.
EditFinish ==
    /\ edit.pc = "check"
    /\ IF edit.temp = {}
       THEN edit' = [edit EXCEPT !.pc = "done", !.temp = Cleanup(@),
                                 !.raised = "FileNotFoundError"]
       ELSE IF NotModified(edit.initial_modification_time, edit.mtime)
       THEN edit' = [edit EXCEPT
                        !.pc = "done", !.temp = Cleanup(@),
                        !.printed = Append(@,
                            "File not modified. Not overwriting config")]
       ELSE LET new_config_toml ==
                    ReadText(CHOOSE bytes \in edit.temp : TRUE)
            IN  IF Validate(new_config_toml) # "none"
                THEN edit' = [edit EXCEPT
                                !.pc = "done", !.temp = Cleanup(@),
                                !.raised = Validate(new_config_toml)]
                ELSE edit' = [edit EXCEPT
                                !.pc = "done", !.temp = Cleanup(@),
                                !.opened_w = TRUE,
                                !.config = WriteText(new_config_toml)]
    /\ EditFrame

EditNext ==
    \/ \E config \in EditContents, hasEditor \in BOOLEAN :
          EditStart(config, hasEditor)
    \/ \E bytes \in EditContents, mtime \in MTimes : EditorExits(bytes, mtime)
    \/ EditorRemoves
    \/ EditFinish

EditSpec ==
    PureInit /\ [][EditNext]_vars

(***************************************************************************)
(* send_run_rpc, called from a process of its own while some run of the    *)
(* instance may hold the runtime paths.  The helper is the peer: it may    *)
(* be listening on the socket or gone, and it answers or not.  A           *)
(* connection the loop lost (a failed send) is closed by the transport     *)
(* itself before drain raises.  drain suspends only while the transport's  *)
(* write buffer is above its high-water mark (`paused`): a request larger  *)
(* than the buffer to a helper that is not reading.                        *)
(***************************************************************************)

\* The runtime paths while a sandbox runs.
AllPaths ==
    [runtimeDir |-> TRUE, helperDir |-> TRUE, helperSocket |-> TRUE,
     sessionSocket |-> TRUE, systemSocket |-> TRUE]

\* Values of args_to_run.
ArgLists ==
    {<<>>, <<"ls">>, <<"ls", "-l">>}

\* RequestRun.to_json_byte_line: one JSON document and a newline.
to_json_byte_line(args_to_run, wait_response) ==
    <<"{", "args_to_run">> \o args_to_run
        \o <<"wait_response", IF wait_response THEN "true" ELSE "false",
             "}", "\n">>

\* What the helper can put on the connection: a response line, a line that
\* is no response, or nothing before it closes its end.
Replies ==
    {<<"{", "return", "hello", "}", "\n">>,
     <<"garbage", "\n">>,
     <<>>}

\* RequestRun.decode_response: the payload of a response line, and the
\* error raised on anything else.
decode_response(line) ==
    IF Len(line) = 5 /\ line[1] = "{" /\ line[2] = "return"
    THEN [raised |-> "none", data |-> {line[3]}]
    ELSE [raised |-> "JSONDecodeError", data |-> {}]

\* open_unix_connection that connects to any socket file.
ConnectErrorNoRefusal(socketExists, listening) ==
    IF ~socketExists THEN "FileNotFoundError" ELSE "none"

\* open_unix_connection(path=...): the error connect() gives, "none" when
\* the connection is made.
ConnectError(socketExists, listening) ==
    IF ~socketExists THEN "FileNotFoundError"
    ELSE IF ~listening THEN "ConnectionRefusedError"
    ELSE "none"

\* The frame of a step of send_run_rpc.
RpcFrame ==
    UNCHANGED <<nPlugins, fs, pc, dryRun, activated, exitLog, tempFiles,
                pipeFds, pipeByte, readyFut, holdsDir, proxy, bwrap,
                pending, result, drainLog, sigterm, build, meta, edit>>

\* send_run_rpc(args_to_run, wait_for_response) is called; `listening`
\* tells whether a helper accepts connections on the socket.
RpcCall(args_to_run, wait_for_response, listening) ==
    /\ rpc.pc = "none"
    /\ rpc' = [rpc EXCEPT !.pc = "connect",
                          !.args_to_run = args_to_run,
                          !.wait_for_response = wait_for_response,
                          !.listening = listening,
                          !.fs_before = fs]
    /\ RpcFrame

\* `await open_unix_connection(...)` returns or raises; on success the
\* request line is handed to writer.write and drain is awaited.
RpcConnect(paused) ==
    /\ rpc.pc = "connect"
    /\ LET err == ConnectError(fs.helperSocket, rpc.listening)
       IN  IF err # "none"
           THEN rpc' = [rpc EXCEPT !.pc = "done", !.raised = err]
           ELSE rpc' = [rpc EXCEPT
                          !.pc = "drain",
                          !.conn = "open",
                          !.paused = paused,
                          !.written = Append(@,
                              to_json_byte_line(rpc.args_to_run,
                                                rpc.wait_for_response))]
    /\ RpcFrame

\* writer.close() and the start of `await writer.wait_closed()`.
CloseWriter(c) ==
    [c EXCEPT !.pc = "wait_closed", !.conn = "closed"]

\* `await writer.drain()` returns: with wait_for_response the read begins,
\* without it data is None and the finally clause closes the writer.
RpcDrained ==
    /\ rpc.pc = "drain"
    /\ rpc' = IF rpc.wait_for_response
              THEN [rpc EXCEPT !.pc = "readline"]
              ELSE CloseWriter(rpc)
    /\ RpcFrame

\* `await writer.drain()` raises: the send failed, the loop dropped the
\* connection and closed its socket.
RpcDrainFails ==
    /\ rpc.pc = "drain"
    /\ rpc' = [rpc EXCEPT !.pc = "done", !.conn = "lost",
                          !.raised = "ConnectionResetError"]
    /\ RpcFrame

\* Environment: the helper sends its answer or closes its end.
HelperReplies(line) ==
    /\ rpc.pc \in {"drain", "readline"}
    /\ rpc.reply = {}
    /\ rpc' = [rpc EXCEPT !.reply = {line}]
    /\ RpcFrame

\* reader.readline() returns the line (b'' at end of file) and
\* decode_response is applied; then the finally clause.
RpcReadLine ==
    /\ rpc.pc = "readline"
    /\ rpc.reply # {}
    /\ LET r == decode_response(CHOOSE line \in rpc.reply : TRUE)
       IN  rpc' = [CloseWriter(rpc) EXCEPT
                      !.reads = @ + 1,
                      !.data = r.data,
                      !.raised = r.raised]
    /\ RpcFrame

\* wait_for(reader.readline(), timeout=3): no line within the timeout.
RpcReadTimeout ==
    /\ rpc.pc = "readline"
    /\ rpc.reply = {}
    /\ rpc' = [CloseWriter(rpc) EXCEPT !.raised = "TimeoutError"]
    /\ RpcFrame

\* The task is cancelled at an await after the connection was made: at a
\* drain that is suspended the CancelledError leaves the function at once,
\* at readline it passes through the finally clause.
RpcCancel ==
    /\ \/ /\ rpc.pc = "drain"
          /\ rpc.paused
          /\ rpc' = [rpc EXCEPT !.pc = "done", !.raised = "CancelledError"]
       \/ /\ rpc.pc = "readline"
          /\ rpc' = [CloseWriter(rpc) EXCEPT !.raised = "CancelledError"]
    /\ RpcFrame

\* `await writer.wait_closed()` returns; then `return data` or the
\* exception in flight.
RpcWaitClosed ==
    /\ rpc.pc = "wait_closed"
    /\ rpc' = [rpc EXCEPT !.pc = "done"]
    /\ RpcFrame

RpcNext ==
    \/ \E a \in ArgLists, w \in BOOLEAN, l \in BOOLEAN : RpcCall(a, w, l)
    \/ \E paused \in BOOLEAN : RpcConnect(paused)
    \/ RpcDrained
    \/ RpcDrainFails
    \/ \E line \in Replies : HelperReplies(line)
    \/ RpcReadLine
    \/ RpcReadTimeout
    \/ RpcCancel
    \/ RpcWaitClosed

\* No run in this process; the instance is stopped or has a sandbox running.
RpcInit ==
    /\ nPlugins = 0
    /\ fs \in {NoPaths, AllPaths}
    /\ pc = [r \in Runners |-> "idle"]
    /\ dryRun = [r \in Runners |-> FALSE]
    /\ activated = [r \in Runners |-> <<>>]
    /\ exitLog = [r \in Runners |-> <<>>]
    /\ tempFiles = [r \in Runners |-> "none"]
    /\ pipeFds = [r \in Runners |-> "none"]
    /\ pipeByte = [r \in Runners |-> FALSE]
    /\ readyFut = [r \in Runners |-> "none"]
    /\ holdsDir = [r \in Runners |-> FALSE]
    /\ proxy = [r \in Runners |-> NoProcess]
    /\ bwrap = [r \in Runners |-> NoProcess]
    /\ pending = [r \in Runners |-> NoError]
    /\ result = [r \in Runners |-> NoError]
    /\ drainLog = [r \in Runners |-> <<>>]
    /\ sigterm = [r \in Runners |-> "none"]
    /\ build = NoBuild
    /\ meta = NoMeta
    /\ edit = NoEdit
    /\ rpc = NoRpc

RpcSpec ==
    RpcInit /\ [][RpcNext]_vars

(***************************************************************************)
(* Properties                                                              *)
(***************************************************************************)

\* s is an initial part of t.
IsPrefix(s, t) ==
    /\ Len(s) <= Len(t)
    /\ \A i \in 1..Len(s) : s[i] = t[i]

Holders ==
    {r \in Runners : holdsDir[r]}

AliveBwraps ==
    {r \in Runners : bwrap[r].st = "alive"}

\* Every plugin the run entered had its exit hook called exactly once.
PluginsExitedOnce(r) ==
    \A i \in 1..Len(activated[r]) :
        Cardinality({j \in 1..Len(exitLog[r]) :
                        exitLog[r][j] = activated[r][i]}) = 1

\* The runner's step in which async_run_init returns or raises.
Returns(r) ==
    pc[r] # "done" /\ pc'[r] = "done"

\* The runner's step that spawns bwrap.
SpawnsBwrap(r) ==
    bwrap[r].st = "none" /\ bwrap'[r].st = "alive"

\* C1: at every moment at most one runner holds the runtime directory and
\* at most one bwrap process is alive for the instance.
C1_AtMostOneSandbox ==
    /\ Cardinality(Holders) <= 1
    /\ Cardinality(AliveBwraps) <= 1

\* C2: a run that finds the runtime directory present fails with
\* FileExistsError (AlreadyRunning), changes no runtime path and no proxy,
\* and has entered no home plugin.
C2_SecondRunDisturbsNothing ==
    [][\A r \in Runners :
        (pc[r] = "mkdir" /\ fs.runtimeDir /\ pc'[r] # "mkdir")
            => /\ result'[r].kind = "FileExistsError"
               /\ fs' = fs
               /\ proxy' = proxy
               /\ activated'[r] = <<>>]_vars

\* C3: once runs have ended and none is in progress, none of the five
\* runtime paths exists.
C3_NothingLeftAfterRun ==
    ((\A r \in Runners : pc[r] \in {"idle", "done"})
        /\ (\E r \in Runners : pc[r] = "done"))
    => fs = NoPaths

\* C4 as stated: bwrap is spawned only while the proxy is up and READY
\* (spawned, signalled, neither timed out nor exited).
C4_BwrapOnlyWhileProxyReady ==
    [][\A r \in Runners : SpawnsBwrap(r) => proxy[r].st = "ready"]_vars

\* C4 as amended: bwrap is spawned only after the proxy has signalled READY
\* and the ready future was resolved, and only while the runner has seen no
\* exit of the proxy (returncode None).
C4_BwrapOnlyAfterProxyReady ==
    [][\A r \in Runners :
        SpawnsBwrap(r) => /\ proxy[r].sig
                          /\ readyFut[r] = "done"
                          /\ proxy[r].rc = {}]_vars

\* C4 witness: a bwrap was spawned behind a proxy that had signalled READY.
C4_Witness ==
    \E r \in Runners : bwrap[r].st = "alive" /\ proxy[r].sig

\* C5: a run that failed with the proxy timeout spawned no bwrap, left its
\* proxy terminated and reaped, and left no runtime directory or socket.
C5_TimeoutCleansUp ==
    \A r \in Runners :
        result[r].kind = "TimeoutError"
            => /\ bwrap[r].st = "none"
               /\ proxy[r].st = "exited"
               /\ proxy[r].rc # {}
               /\ ~holdsDir[r]
               /\ (Holders = {} => fs = NoPaths)

\* C6: the wait for the proxy ends READY, with the timeout, or with the
\* proxy's exit code; a proxy that exited without signalling READY ends it
\* with its exit code and never READY.
C6_ProxyStartOutcomes ==
    [][\A r \in Runners :
        (pc[r] = "wait_proxy" /\ pc'[r] # "wait_proxy"
            /\ result'[r].kind # "CancelledError")
            => /\ \/ pc'[r] = "body"
                  \/ result'[r].kind = "TimeoutError"
                  \/ result'[r] = [kind |-> "ValueError",
                                   code |-> proxy[r].code]
               /\ (proxy[r].st = "exited" /\ ~proxy[r].sig)
                      => result'[r] = [kind |-> "ValueError",
                                       code |-> proxy[r].code]
               /\ pc'[r] = "body" => proxy[r].sig]_vars

\* C7: a dry run never creates the runtime directory, never spawns the
\* proxy, is not refused because another run holds the directory, and
\* returns without error when the build succeeded.
C7_DryRunNoSideEffects ==
    \A r \in Runners :
        dryRun[r]
            => /\ ~holdsDir[r]
               /\ proxy[r].st = "none"
               /\ pc[r] = "done" => result[r].kind \in {"ok", "TypeError"}

\* C8: when a run has returned, every home plugin it entered was exited
\* exactly once.
C8_EnteredPluginsExited ==
    \A r \in Runners : pc[r] = "done" => PluginsExitedOnce(r)

\* The full cleanup has completed for run r: proxy gone, its runtime
\* directory removed, its temp files closed, entered plugins exited.
CleanupComplete(r) ==
    /\ proxy[r].st = "exited"
    /\ ~holdsDir[r]
    /\ tempFiles[r] # "open"
    /\ PluginsExitedOnce(r)

\* C9: a run that saw bwrap exit (and was not cancelled during cleanup)
\* returns only after the full cleanup; it raises the sandbox failure
\* carrying the exit code when the code is non-zero and returns without
\* error when it is 0.
C9_SandboxExitReported ==
    [][\A r \in Runners :
        (Returns(r) /\ bwrap[r].rc # {}
            /\ result'[r].kind # "CancelledError")
            => /\ CleanupComplete(r)'
               /\ result'[r] = IF bwrap[r].rc = {0}
                               THEN Raise("ok")
                               ELSE [kind |-> "BubblewrapRunError",
                                     code |-> bwrap[r].rc]]_vars

\* C10: a run whose build failed never created the runtime directory, never
\* spawned the proxy or bwrap, and was drained: its temp files are closed
\* and the plugins it entered are exited.
C10_BuildFailureDrains ==
    \A r \in Runners :
        result[r].kind = "TypeError"
            => /\ ~holdsDir[r]
               /\ proxy[r].st = "none"
               /\ bwrap[r].st = "none"
               /\ tempFiles[r] # "open"
               /\ PluginsExitedOnce(r)

\* C11: a run that got SIGTERM after it created the runtime directory does
\* not stop (return, or end with the process) before the sandbox is gone and
\* cleanup is complete: proxy terminated and runtime directory removed.
C11_SigtermCleansUp ==
    \A r \in Runners :
        (sigterm[r] # "none" /\ pc[r] \in {"done", "killed"})
            => /\ bwrap[r].st # "alive"
               /\ proxy[r].st \in {"none", "exited"}
               /\ ~holdsDir[r]

\* The build has succeeded.
Built ==
    build.pc \in {"built", "args", "spawned"}

\* The yielded items that went through the if/elif chain.
Processed ==
    SelectSeq(build.yielded, LAMBDA d : d \notin WantsDirectives)

\* The FileTransfer directives that were processed, in order.
FileTransfers ==
    SelectSeq(Processed, LAMBDA d : d.t = "FileTransfer")

\* The <<fd, dest>> pairs of the `--file <fd> <dest>` entries of the option
\* list, in order.
FileEntries ==
    LET o == build.bwrap_options_args
        at == SelectSeq([i \in 1..Len(o) |-> i],
                        LAMBDA i : o[i] = "--file" /\ i + 2 <= Len(o))
    IN  [k \in 1..Len(at) |-> <<o[at[k] + 1], o[at[k] + 2]>>]

\* C12: after a successful build the option list starts with --unshare-all,
\* --die-with-parent, --as-pid-1, --proc /proc, --dev /dev, --clearenv in
\* that order, with --new-session between --as-pid-1 and --proc exactly
\* when debug-shell is off, and nothing a service produced precedes
\* --clearenv.
C12_FixedPrologue ==
    Built =>
        LET o == build.bwrap_options_args
            head == IF build.is_shell_debug
                    THEN <<"--unshare-all", "--die-with-parent",
                           "--as-pid-1", "--proc", "/proc", "--dev", "/dev",
                           "--clearenv">>
                    ELSE <<"--unshare-all", "--die-with-parent",
                           "--as-pid-1", "--new-session", "--proc", "/proc",
                           "--dev", "/dev", "--clearenv">>
        IN  /\ IsPrefix(head, o)
            /\ ("--new-session" \in Range(o)) <=> ~build.is_shell_debug
            /\ \A i \in 1..Len(o) : o[i] = "--clearenv" => i = Len(head)

\* C12 witness: a build in debug-shell mode with an option produced by a
\* service has succeeded.
C12_Witness ==
    /\ Built
    /\ build.is_shell_debug
    /\ \E i \in 1..Len(Processed) : Processed[i].t = "BwrapConfigBase"

\* C13: every processed FileTransfer has its own `--file <fd> <dest>` entry
\* with its dest (entries and directives match one to one, each with an fd
\* of its own); the fds bwrap inherits are exactly the options-file fd, the
\* FileTransfer fds and the seccomp fd when a seccomp rule was emitted, and
\* not the fds of the ready pipe; and each of them is open at the spawn.
C13_FileTransferFds ==
    Built =>
        LET fileFds == {f \in OpenFds(build) :
                          \E k \in 1..Len(FileEntries) :
                              FileEntries[k][1] = ToString(f)}
        IN  /\ Len(FileEntries) = Len(FileTransfers)
            /\ \A k \in 1..Len(FileEntries) :
                   /\ FileEntries[k][2] = FileTransfers[k].a[1]
                   /\ \A j \in 1..Len(FileEntries) :
                         FileEntries[j][1] = FileEntries[k][1] => j = k
            /\ Cardinality(fileFds) = Len(FileTransfers)
            /\ (build.seccomp_fd # {})
                   <=> (\E i \in 1..Len(Processed) :
                           Processed[i].t = "SeccompDirective")
            /\ build.pc = "spawned" =>
                   /\ Cardinality(build.args_fd) = 1
                   /\ build.inherited
                         = build.args_fd \cup fileFds \cup build.seccomp_fd
                   /\ build.inherited \cap Range(build.dbus_proxy_pipe) = {}
                   /\ Cardinality(build.inherited)
                         = 1 + Len(FileTransfers)
                             + Cardinality(build.seccomp_fd)
                   /\ build.inherited \subseteq OpenFds(build)

\* C13 witness: bwrap was spawned after a build with two FileTransfers and
\* a seccomp rule.
C13_Witness ==
    /\ build.pc = "spawned"
    /\ Len(FileTransfers) = 2
    /\ build.seccomp_fd # {}

\* The value the last setter call on `key` passed, {} when there was none.
LastSet(key) ==
    LET at == {i \in 1..Len(meta.calls) : meta.calls[i][1] = key}
    IN  IF at = {} THEN {}
        ELSE {meta.calls[CHOOSE i \in at : \A j \in at : j <= i][2]}

\* C14: the setters are read-modify-write.  After any sequence of setter
\* calls the file holds, for every key that was set, the last value set
\* for it (so after set(k1,v1) and set(k2,v2) with k1 # k2 it holds both),
\* and every other key is as it was before the calls; a get returns the
\* last value set for the key, and None when the file or the key is absent.
C14_MetadataReadModifyWrite ==
    meta.pc = "open" =>
        \A key \in MetaKeys :
            LET now == get_metadata_dict(meta.file)
                before == get_metadata_dict(meta.initial)
            IN  /\ LastSet(key) # {}
                       => /\ key \in DOMAIN now.val
                          /\ {now.val[key]} = {Str(v) : v \in LastSet(key)}
                          /\ get_metadata_value(meta.file, key)
                                = [raised |-> "none", value |-> LastSet(key)]
                /\ LastSet(key) = {}
                       => /\ (key \in DOMAIN now.val)
                                <=> (key \in DOMAIN before.val)
                          /\ key \in DOMAIN now.val
                                => now.val[key] = before.val[key]
                /\ (meta.file = {} \/ key \notin DOMAIN now.val)
                       => get_metadata_value(meta.file, key)
                            = [raised |-> "none", value |-> {}]

\* C14 witness: both keys were set, one after the other, on a file that
\* held a third key.
C14_Witness ==
    /\ meta.pc = "open"
    /\ LastSet("creation_profile_name") # {}
    /\ LastSet("desktop_entry_name") # {}
    /\ "other" \in DOMAIN get_metadata_dict(meta.initial).val

\* The edit has ended and the temp file exists.
EditEnded ==
    edit.pc = "done" /\ edit.temp # {} /\ edit.raised # "KeyError"

\* C15: when the editor has returned and the temp file's mtime has not
\* advanced past the recorded time, the config file is not opened for
\* writing, keeps its original bytes, and the operation reports
\* 'File not modified. Not overwriting config'.
C15_UnmodifiedKeepsConfig ==
    (EditEnded /\ edit.mtime <= edit.initial_modification_time)
        => /\ ~edit.opened_w
           /\ edit.config = edit.original
           /\ edit.printed = <<"File not modified. Not overwriting config">>
           /\ edit.raised = "none"

\* C15 witness: the editor rewrote the file within the recorded timestamp
\* and the edit has ended.
C15_Witness ==
    /\ EditEnded
    /\ edit.mtime = edit.initial_modification_time
    /\ edit.temp # {edit.original}

\* C16 as stated: when the temp file was modified, a new content that fails
\* validation makes the operation fail with the config file untouched, and
\* a new content that passes leaves the config file with exactly the edited
\* bytes.
C16_ValidatedOverwriteExact ==
    (EditEnded /\ edit.mtime > edit.initial_modification_time)
        => LET bytes == CHOOSE b \in edit.temp : TRUE
           IN  IF edit.raised # "none"
               THEN ~edit.opened_w /\ edit.config = edit.original
               ELSE edit.config = bytes

\* C16 as amended: when the temp file was modified, the config file is
\* opened for writing only if the new content, as text with every line
\* ending read as "\n", parses as TOML and a config can be constructed from
\* it; if not, the operation fails and the config file keeps its original
\* bytes; if so, the config file afterwards holds that text: the edited
\* content with its line endings turned into "\n".
C16_ValidatedOverwrite ==
    (EditEnded /\ edit.mtime > edit.initial_modification_time)
        => LET text == ReadText(CHOOSE b \in edit.temp : TRUE)
           IN  IF TomlParses(text) /\ ConfigConstructs(text)
               THEN /\ edit.raised = "none"
                    /\ edit.opened_w
                    /\ edit.config = text
                    /\ \A i \in 1..Len(edit.config) : edit.config[i] # "\r"
               ELSE /\ edit.raised \in {"TOMLDecodeError", "ConfigError"}
                    /\ ~edit.opened_w
                    /\ edit.config = edit.original

\* C16 witness: an edit that fails validation has ended with an error.
C16_Witness ==
    /\ EditEnded
    /\ edit.mtime > edit.initial_modification_time
    /\ edit.raised = "ConfigError"
    /\ edit.original # <<>>

\* C17: send_run_rpc writes exactly one newline-terminated request; without
\* wait_response it returns no payload and reads nothing; with it, it reads
\* exactly one line and returns the decoded payload; and whenever it ends
\* after the connection was opened the connection is closed.
C17_OneRequestAlwaysClosed ==
    (rpc.pc = "done" /\ rpc.conn # "none")
        => /\ rpc.conn \in {"closed", "lost"}
           /\ Len(rpc.written) = 1
           /\ rpc.written[1][Len(rpc.written[1])] = "\n"
           /\ ~rpc.wait_for_response => (rpc.reads = 0 /\ rpc.data = {})
           /\ (rpc.wait_for_response /\ rpc.raised = "none")
                 => (rpc.reads = 1 /\ rpc.data = {"hello"})

\* C18: send_run_rpc fails with FileNotFoundError when the helper socket is
\* absent and with ConnectionRefusedError when nothing listens on it
\* (NotRunning), with TimeoutError when wait_response is set and no line
\* arrived before the read deadline (RpcTimeout), and with the decode error
\* when the line read is no response (RpcProtocol); after each of these
\* failures the runtime paths, the config and the metadata are as before.
C18_RpcFailures ==
    rpc.pc = "done" =>
        /\ ~rpc.fs_before.helperSocket => rpc.raised = "FileNotFoundError"
        /\ (rpc.fs_before.helperSocket /\ ~rpc.listening)
              => rpc.raised = "ConnectionRefusedError"
        /\ rpc.raised \in {"FileNotFoundError", "ConnectionRefusedError"}
              => (rpc.conn = "none" /\ rpc.written = <<>>)
        /\ rpc.raised = "TimeoutError"
              => (rpc.wait_for_response /\ rpc.reads = 0)
        /\ (rpc.wait_for_response /\ rpc.conn = "closed" /\ rpc.reads = 0
               /\ rpc.raised # "CancelledError")
              => rpc.raised = "TimeoutError"
        /\ (rpc.reads = 1 /\ rpc.reply # {<<"{", "return", "hello", "}", "\n">>})
              => rpc.raised = "JSONDecodeError"
        /\ rpc.raised = "JSONDecodeError"
              => (rpc.reads = 1 /\ rpc.data = {})
        /\ rpc.raised \in {"FileNotFoundError", "ConnectionRefusedError",
                           "TimeoutError", "JSONDecodeError"}
              => /\ fs = rpc.fs_before
                 /\ edit = NoEdit
                 /\ meta = NoMeta

\* C18 witness: a call on a stale socket (a socket file with no helper
\* behind it) has failed.
C18_Witness ==
    /\ rpc.pc = "done"
    /\ rpc.fs_before.helperSocket
    /\ ~rpc.listening
    /\ rpc.raised = "ConnectionRefusedError"

\* C19 as stated: is_running() is true in every state in which a run holds
\* the runtime directory, also before the helper has created its socket,
\* and false in every state in which no runtime directory exists.
C19_RunningIffRuntimeDir ==
    /\ Holders # {} => is_running
    /\ ~fs.runtimeDir => ~is_running

\* C19 as amended: is_running() is true only in states in which the runtime
\* directory exists and the helper of some run has created its socket; it
\* is false whenever no runtime directory exists, and false while a run
\* holds the directory and no helper has created the socket yet.
C19_RunningIffHelperSocket ==
    /\ is_running => (fs.runtimeDir /\ \E r \in Runners : bwrap[r].sig)
    /\ ~fs.runtimeDir => ~is_running
    /\ (\A r \in Runners : ~bwrap[r].sig) => ~is_running

\* C19 witness: a run holds the directory, its helper has created the
\* socket, and is_running() is true.
C19_Witness ==
    \E r \in Runners : holdsDir[r] /\ bwrap[r].sig /\ is_running

\* The order of drain stated by C20.
C20_StatedOrder ==
    <<"terminate_proxy", "unlink_helper_socket", "rmdir_helper_dir",
      "unlink_session_socket", "unlink_system_socket", "rmdir_runtime_dir",
      "close_temp_files", "plugin_exits">>

\* The order of drain with the temp files closed right after the proxy.
C20_AmendedOrder ==
    <<"terminate_proxy", "close_temp_files", "unlink_helper_socket",
      "rmdir_helper_dir", "unlink_session_socket", "unlink_system_socket",
      "rmdir_runtime_dir", "plugin_exits">>

Reverse(s) ==
    [i \in 1..Len(s) |-> s[Len(s) + 1 - i]]

\* C21: the home-plugin exit hooks run in the reverse of the order in which
\* the enter hooks ran: a plugin entered before another is exited after it.
C21_PluginsExitInReverse ==
    \A r \in Runners :
        exitLog[r] # <<>> => exitLog[r] = Reverse(activated[r])

\* C22: an error in a drain step other than "not found" is swallowed: a run
\* that began its drain and was not cancelled has attempted every drain step
\* when it returns.
C22_EveryDrainStepAttempted ==
    \A r \in Runners :
        (pc[r] = "done" /\ drainLog[r] # <<>>
            /\ result[r].kind # "CancelledError")
            => drainLog[r] = C20_AmendedOrder

\* C23: when a run has a primary failure and a drain step fails as well, the
\* error returned to the caller is the primary failure.
C23_PrimaryFailureReturned ==
    [][\A r \in Runners :
        (Returns(r) /\ pending[r] # NoError
            /\ result'[r].kind # "CancelledError")
            => result'[r] = pending[r]]_vars

\* C24: a cancellation delivered while the runner awaits bwrap ends the
\* sandbox: when a run has completed its drain and returned, the bwrap
\* process it spawned is no longer alive.
C24_NoReturnWhileSandboxAlive ==
    \A r \in Runners :
        (pc[r] = "done" /\ drainLog[r] = C20_AmendedOrder)
            => bwrap[r].st # "alive"

\* C25: cleanup is uncancellable: a run that began its drain has made every
\* drain step when it returns, cancelled or not.
C25_DrainRunsToTheEnd ==
    \A r \in Runners :
        (pc[r] = "done" /\ drainLog[r] # <<>>)
            => /\ drainLog[r] = C20_AmendedOrder
               /\ tempFiles[r] = "closed"
               /\ exitLog[r] = activated[r]

\* C26: after drain every file descriptor the runner opened is closed: the
\* temp files (FileTransfer copies, seccomp program, options file) and both
\* ends of the ready pipe.
C26_AllFdsClosedAfterDrain ==
    \A r \in Runners :
        drainLog[r] = C20_AmendedOrder
            => /\ tempFiles[r] # "open"
               /\ pipeFds[r] # "open"

\* The placeholder requests the generators yielded, in order.
Wants ==
    SelectSeq(build.yielded, LAMBDA d : d \in WantsDirectives)

\* C27: every placeholder request a service yields is answered with the
\* matching value (the home path, the session proxy socket path), and no
\* stream shape of placeholder requests makes the build fail: a build fails
\* in the service loop only on a directive of an unknown class.
C27_PlaceholdersAnswered ==
    /\ Len(build.sent) = Len(Wants)
    /\ \A i \in 1..Len(build.sent) : build.sent[i] = SentValue(Wants[i])
    /\ build.error \in {"TypeError", "StopIteration"}
           => build.yielded[Len(build.yielded)].t = "Unknown"

\* The LaunchArguments directives that were processed, in emission order.
LaunchArgs ==
    SelectSeq(Processed, LAMBDA d : d.t = "LaunchArguments")

RECURSIVE InsertByPriority(_, _)
\* d put into the priority-sorted s behind every item of priority <= d.p.
InsertByPriority(d, s) ==
    IF s = <<>> \/ s[Len(s)].p <= d.p
    THEN Append(s, d)
    ELSE Append(InsertByPriority(d, SubSeq(s, 1, Len(s) - 1)), s[Len(s)])

RECURSIVE SortByPriority(_)
\* s ordered by priority, lower first, ties in the order of s.
SortByPriority(s) ==
    IF s = <<>> THEN <<>>
    ELSE InsertByPriority(s[Len(s)],
                          SortByPriority(SubSeq(s, 1, Len(s) - 1)))

RECURSIVE Flatten(_)
\* The payloads of the directives of s, one after the other.
Flatten(s) ==
    IF s = <<>> THEN <<>> ELSE s[1].a \o Flatten(Tail(s))

\* C28: the inner command line is the launch arguments ordered by priority,
\* lower priority first, equal priorities in emission order.
C28_LaunchArgsByPriority ==
    Built => build.executable_args = Flatten(SortByPriority(LaunchArgs))

\* The rules of class t that were processed.
RulesOf(t) ==
    {d.a[1] : d \in {e \in Range(Processed) : e.t = t}}

\* C29: every D-Bus rule reaches the proxy: each session rule stands once
\* between `--fd=` and the first --filter of the proxy argv, each system
\* rule once between the system socket path and the second --filter.
C29_DbusRulesReachProxy ==
    Built =>
        LET a == build.dbus_proxy_args
            filters == {i \in 1..Len(a) : a[i] = "--filter"}
            f1 == CHOOSE i \in filters : \A j \in filters : i <= j
            f2 == CHOOSE i \in filters : \A j \in filters : j <= i
            fd == CHOOSE i \in 1..Len(a) :
                      a[i] = "--fd=" \o ToString(build.dbus_proxy_pipe[2])
            sys == CHOOSE i \in 1..Len(a) : a[i] = dbus_system_socket_path
        IN  /\ Cardinality(filters) = 2
            /\ \A rule \in RulesOf("DbusSessionArgs") :
                   Cardinality({i \in (fd + 1)..(f1 - 1) : a[i] = rule}) = 1
            /\ \A rule \in RulesOf("DbusSystemArgs") :
                   Cardinality({i \in (sys + 1)..(f2 - 1) : a[i] = rule}) = 1

RECURSIVE ServiceOptionCount(_)
\* Number of entries of the option list that the directives of s produce.
ServiceOptionCount(s) ==
    IF s = <<>> THEN 0
    ELSE (IF s[1].t = "BwrapConfigBase" THEN Len(s[1].a)
          ELSE IF s[1].t = "FileTransfer" THEN Len(<<"--file", "fd", "dest">>)
          ELSE 0)
         + ServiceOptionCount(Tail(s))

\* A seccomp rule was processed.
SeccompEmitted ==
    \E i \in 1..Len(Processed) : Processed[i].t = "SeccompDirective"

\* C30: after a successful build `--seccomp <fd>` is in the option list
\* exactly when a seccomp rule was emitted; then it is there once, right
\* after every option the services produced, its fd is the fd of the
\* exported program, and bwrap inherits that fd.
C30_SeccompOption ==
    Built =>
        LET o == build.bwrap_options_args
            at == {i \in 1..Len(o) : o[i] = "--seccomp"}
        IN  /\ (at # {}) <=> SeccompEmitted
            /\ Cardinality(at) <= 1
            /\ \A i \in at :
                   /\ i = Len(Prologue(build.is_shell_debug))
                             + ServiceOptionCount(Processed) + 1
                   /\ i + 1 <= Len(o)
                   /\ \E f \in Range(build.temp_files) :
                          /\ f.holds = "seccomp"
                          /\ o[i + 1] = ToString(f.fd)
                          /\ build.seccomp_fd = {f.fd}
                          /\ build.pc = "spawned" => f.fd \in build.inherited

\* C30 witness: bwrap was spawned after a build in which a service emitted
\* a seccomp rule and, after it, an option of its own.
C30_Witness ==
    /\ build.pc = "spawned"
    /\ \E i \in 1..Len(Processed), j \in 1..Len(Processed) :
          /\ i < j
          /\ Processed[i].t = "SeccompDirective"
          /\ Processed[j].t = "BwrapConfigBase"
    /\ "--seccomp" \in Range(build.bwrap_options_args)

\* The option list holds the bind of source to dest at index i.
BindAt(o, i, source, dest) ==
    /\ i + 2 <= Len(o)
    /\ SubSeq(o, i, i + 2) = <<"--bind", source, dest>>

\* Where the options that no service produced begin: behind the prologue,
\* the services' options and `--seccomp <fd>`.
AfterServiceOptions ==
    Len(Prologue(build.is_shell_debug)) + ServiceOptionCount(Processed)
        + (IF SeccompEmitted THEN Len(<<"--seccomp", "fd">>) ELSE 0)

\* C31 as stated: the built option list binds the session and the system
\* proxy socket to both system-bus paths and the helper directory to
\* /run/bubblehelp, behind every option a service produced.
C31_SessionAndSystemBound ==
    Built =>
        LET o == build.bwrap_options_args
        IN  \A source \in {dbus_session_socket_path,
                           dbus_system_socket_path} :
                \A dest \in {"/var/run/dbus/system_bus_socket",
                             "/run/dbus/system_bus_socket"} :
                    \E i \in (AfterServiceOptions + 1)..Len(o) :
                        BindAt(o, i, source, dest)

\* C31: the built option list ends with the bind of the system proxy socket
\* to /var/run/dbus/system_bus_socket, its bind to
\* /run/dbus/system_bus_socket and the bind of the helper directory to
\* /run/bubblehelp, in that order and behind every option a service
\* produced; the session proxy socket is not among these binds.
C31_FinalBinds ==
    Built =>
        LET o == build.bwrap_options_args
            n == AfterServiceOptions
        IN  /\ Len(o) = n + 9
            /\ BindAt(o, n + 1, dbus_system_socket_path,
                      "/var/run/dbus/system_bus_socket")
            /\ BindAt(o, n + 4, dbus_system_socket_path,
                      "/run/dbus/system_bus_socket")
            /\ BindAt(o, n + 7, helper_runtime_dir, "/run/bubblehelp")

\* C31 witness: a build has succeeded in which a service produced a bind of
\* its own and a seccomp rule.
C31_Witness ==
    /\ Built
    /\ SeccompEmitted
    /\ \E i \in 1..Len(Processed) :
          /\ Processed[i].t = "BwrapConfigBase"
          /\ Processed[i].a[1] = "--bind"

\* The argv of bwrap has been assembled and bwrap spawned with it.
ArgvBuilt ==
    build.pc = "spawned"

\* `bwrap --args <fd>` followed by the caller's extra arguments.
ArgvHead ==
    <<"/usr/bin/bwrap", "--args">>
        \o [i \in 1..Cardinality(build.args_fd) |->
               ToString(CHOOSE fd \in build.args_fd : TRUE)]
        \o (IF build.extra_bwrap_args = {} THEN <<>>
            ELSE CHOOSE extra \in build.extra_bwrap_args : TRUE)

\* The helper path, or the invocation of the debug script.
ArgvHelper ==
    IF build.debug_helper_script = {} THEN <<HELPER_PATH_STR>>
    ELSE <<"python", "-X", "dev", "-c">>
             \o <<CHOOSE text \in build.debug_helper_script : TRUE>>

\* The inner argv: the caller's command when one is given, the services'
\* launch arguments otherwise.
ArgvInner ==
    IF build.args_to_run # <<>> THEN build.args_to_run
    ELSE Flatten(LaunchArgs)

\* The options file is the built option list, NUL-joined in build order.
OptionsFileHoldsOptions ==
    LET o == build.bwrap_options_args
        f == build.args_file
    IN  /\ Len(f) = 2 * Len(o) - 1
        /\ \A i \in 1..Len(o) : f[2 * i - 1] = o[i]
        /\ \A i \in 1..(Len(o) - 1) : f[2 * i] = "\\0"
        /\ \E t \in Range(build.temp_files) :
              t.holds = "options" /\ build.args_fd = {t.fd}

\* C32 as stated: the argv of bwrap is `bwrap --args <fd>`, the extra
\* arguments, the helper path or the debug script invocation, and directly
\* behind it the inner argv; the options file holds the option list.
C32_ArgvStated ==
    ArgvBuilt =>
        /\ build.bwrap_args = ArgvHead \o ArgvHelper \o ArgvInner
        /\ OptionsFileHoldsOptions

\* C32: the argv of bwrap is `bwrap --args <fd>`, the extra arguments, the
\* helper path or the debug script invocation, `--shell` exactly in
\* debug-shell mode, and the inner argv; the inner argv is the caller's
\* command when one is given and the services' launch arguments otherwise;
\* the options file holds the built option list, NUL-joined in build order.
C32_Argv ==
    ArgvBuilt =>
        /\ build.bwrap_args
               = ArgvHead \o ArgvHelper
                   \o (IF build.is_shell_debug THEN <<"--shell">> ELSE <<>>)
                   \o ArgvInner
        /\ OptionsFileHoldsOptions

\* C32 witness: the argv was assembled in debug-shell mode for a caller's
\* command, with extra arguments, while a service had emitted launch
\* arguments.
C32_Witness ==
    /\ ArgvBuilt
    /\ build.is_shell_debug
    /\ build.args_to_run # <<>>
    /\ build.extra_bwrap_args # {}
    /\ LaunchArgs # <<>>

\* C33: the SIGTERM handler runs only while the bwrap of its run is alive
\* and has its child, so it never fails: no call of the handler ends
\* without the signal sent to the helper.
C33_HandlerNeverFails ==
    \A r \in Runners : sigterm[r] # "failed"

\* C34: when edit_config_in_editor has ended after the editor's exit (not
\* modified, validation failed, or config overwritten), the temporary copy
\* it handed to the editor was made inside the operation's temporary
\* directory and no file is left at its path.
C34_TempCopyRemoved ==
    (edit.pc = "done" /\ edit.raised \notin {"KeyError", "FileNotFoundError"})
        => /\ Inside(temp_file_path, tempdir)
           /\ edit.temp = {}

====
